---- MODULE Spec2Model ----
(***************************************************************************)
(* A model of the zabbix-api client: the JSON-RPC request envelope, the    *)
(* transport adapter (send_post_request), the decoding of the response     *)
(* envelope and the classification every operation of ZabbixApiClientImpl  *)
(* applies to it.  One call at a time is followed from its invocation to   *)
(* the value it returns; the network and the server are the environment.   *)
(* A second specification follows the call to its end under fairness, a    *)
(* third has several callers share one handle.                             *)
(***************************************************************************)
EXTENDS Integers, Sequences, FiniteSets, TLC

----------------------------------------------------------------------------
(* Values *)

\* Rust Option<T>
None == [some |-> FALSE]
Some(x) == [some |-> TRUE, v |-> x]

\* Rust Result<T, ZabbixApiError>
Ok(x) == [ok |-> TRUE, v |-> x]
Err(e) == [ok |-> FALSE, err |-> e]

\* The variants of ZabbixApiError
NetworkError == [kind |-> "NetworkError"]
UnsupportedApiError == [kind |-> "UnsupportedApiError"]
BadRequestError == [kind |-> "BadRequestError"]
LocalError == [kind |-> "Error"]
ApiCallError(e) == [kind |-> "ApiCallError", zabbix |-> e]

\* JSON values: null, strings, numbers, arrays and objects (an object is a
\* function from its keys to JSON values)
JNull == [t |-> "null"]
JStr(s) == [t |-> "str", str |-> s]
JNum(n) == [t |-> "num", num |-> n]
JArr(s) == [t |-> "arr", arr |-> s]
JObj(f) == [t |-> "obj", obj |-> f]

\* A response body that is not JSON text at all
Garbage == [t |-> "garbage"]

\* The sequences over S of length at most n
RECURSIVE SeqsUpTo(_, _)
SeqsUpTo(S, n) ==
    IF n = 0 THEN {<<>>}
    ELSE LET shorter == SeqsUpTo(S, n - 1)
         IN  shorter \cup {Append(s, x) : s \in {q \in shorter : Len(q) = n - 1}, x \in S}

----------------------------------------------------------------------------
(* Bounds and input sets *)

\* The longest list (of ids, of entities) a response carries
MaxLen == 2

\* The two protocol variants, cargo features "v6" and "v7"
Variants == {"v6", "v7"}

JSON_RPC_VERSION == "2.0"
REQUEST_ID == 1
StatusOK == 200
I8Min == -128
I8Max == 127

UnauthOps == {"get_api_info", "get_auth_session"}
GetOps == {"get_host_groups", "get_hosts", "get_items", "get_triggers",
           "get_webscenarios", "get_users", "get_user_groups"}
CreateOps == {"create_host_group", "create_host", "create_item", "create_trigger",
              "create_webscenario", "create_user_group", "create_user"}
FirstIdOps == CreateOps \cup {"update_host"}
IdListOps == FirstIdOps \cup {"delete_hosts"}
Ops == UnauthOps \cup {"raw_api_call"} \cup GetOps \cup IdListOps

\* What callers pass
Sessions == {"", "0424bd59b807674191e7d77572075f33"}
Logins == {"", "Admin"}
Secrets == {"", "zabbix"}
\* raw_api_call takes any method name, user.login included
RawMethods == {"host.get", "user.login"}
\* a caller-typed params value P: a struct that serializes, and a map with
\* non-string keys, which serde_json refuses to serialize
GenericParams == {[kind |-> "struct", name |-> "extend"], [kind |-> "badmap"]}

Calls ==
    {[op |-> "get_api_info"]}
    \cup {[op |-> "get_auth_session", login |-> l, token |-> t] : l \in Logins, t \in Secrets}
    \cup {[op |-> "raw_api_call", session |-> s, method |-> m, params |-> p] :
             s \in Sessions, m \in RawMethods, p \in GenericParams}
    \cup {[op |-> o, session |-> s, params |-> p] :
             o \in GetOps, s \in Sessions, p \in GenericParams}
    \cup {[op |-> o, session |-> s, request |-> [kind |-> "struct", name |-> "n1"]] :
             o \in FirstIdOps, s \in Sessions}
    \cup {[op |-> "delete_hosts", session |-> s, host_ids |-> <<"10084">>] : s \in Sessions}

----------------------------------------------------------------------------
(* Building and sending the request *)

EmptyMap == [k \in {} |-> ""]

\* The method name each operation sends; raw_api_call sends the caller's
Method(c) ==
    CASE c.op = "get_api_info" -> "apiinfo.version"
      [] c.op = "get_auth_session" -> "user.login"
      [] c.op = "raw_api_call" -> c.method
      [] c.op = "get_host_groups" -> "hostgroup.get"
      [] c.op = "get_hosts" -> "host.get"
      [] c.op = "get_items" -> "item.get"
      [] c.op = "get_triggers" -> "trigger.get"
      [] c.op = "get_webscenarios" -> "httptest.get"
      [] c.op = "get_users" -> "user.get"
      [] c.op = "get_user_groups" -> "usergroup.get"
      [] c.op = "create_host_group" -> "hostgroup.create"
      [] c.op = "create_host" -> "host.create"
      [] c.op = "update_host" -> "host.update"
      [] c.op = "delete_hosts" -> "host.delete"
      [] c.op = "create_item" -> "item.create"
      [] c.op = "create_trigger" -> "trigger.create"
      [] c.op = "create_webscenario" -> "httptest.create"
      [] c.op = "create_user_group" -> "usergroup.create"
      [] c.op = "create_user" -> "user.create"

\* Params with the login sent under `user`, the key of older servers
Params_LegacyUserKey(c) ==
    CASE c.op = "get_api_info" -> [kind |-> "map", entries |-> EmptyMap]
      [] c.op = "get_auth_session" ->
             [kind |-> "map", entries |-> [user |-> c.login, password |-> c.token]]
      [] c.op = "raw_api_call" \/ c.op \in GetOps -> c.params
      [] c.op = "create_user" -> [kind |-> "array", items |-> <<c.request>>]
      [] c.op = "delete_hosts" -> [kind |-> "strings", items |-> c.host_ids]
      [] OTHER -> c.request

\* The params value each operation puts in the envelope
Params(c) ==
    CASE c.op = "get_api_info" -> [kind |-> "map", entries |-> EmptyMap]
      [] c.op = "get_auth_session" ->
             [kind |-> "map", entries |-> [username |-> c.login, password |-> c.token]]
      [] c.op = "raw_api_call" \/ c.op \in GetOps -> c.params
      [] c.op = "create_user" -> [kind |-> "array", items |-> <<c.request>>]
      [] c.op = "delete_hosts" -> [kind |-> "strings", items |-> c.host_ids]
      [] OTHER -> c.request

\* SessionArg with an empty session taken for no session
SessionArg_SkipsEmpty(c) ==
    IF c.op \in UnauthOps \/ c.session = "" THEN None ELSE Some(c.session)

\* The session each operation hands to get_api_request and send_post_request
SessionArg(c) == IF c.op \in UnauthOps THEN None ELSE Some(c.session)

\* get_api_request building the v6 envelope under either variant
get_api_request_AlwaysAuth(v, method, params, session) ==
    [jsonrpc |-> JSON_RPC_VERSION, method |-> method, params |-> params,
     id |-> REQUEST_ID, auth |-> session]

\* get_api_request: the v7 envelope has no auth field, the v6 one carries the
\* session in it
get_api_request(v, method, params, session) ==
    IF v = "v7"
    THEN [jsonrpc |-> JSON_RPC_VERSION, method |-> method, params |-> params,
          id |-> REQUEST_ID]
    ELSE [jsonrpc |-> JSON_RPC_VERSION, method |-> method, params |-> params,
          id |-> REQUEST_ID, auth |-> session]

\* serde_json::to_value of a params value: None when it cannot be serialized
RECURSIVE SerializeValue(_)
SerializeValue(p) ==
    CASE p.kind = "struct" -> Some(JObj([name |-> JStr(p.name)]))
      [] p.kind = "badmap" -> None
      [] p.kind = "map" -> Some(JObj([k \in DOMAIN p.entries |-> JStr(p.entries[k])]))
      [] p.kind = "strings" -> Some(JArr([i \in DOMAIN p.items |-> JStr(p.items[i])]))
      [] p.kind = "array" ->
             IF \E i \in DOMAIN p.items : ~SerializeValue(p.items[i]).some
             THEN None
             ELSE Some(JArr([i \in DOMAIN p.items |-> SerializeValue(p.items[i]).v]))

\* serde_json::to_string(&request): every field of the struct becomes a key; an
\* Option field that is None is written as null
SerializeRequest(req) ==
    LET p == SerializeValue(req.params)
    IN  IF ~p.some THEN None
        ELSE Some(JObj([k \in DOMAIN req |->
                 CASE k = "jsonrpc" -> JStr(req.jsonrpc)
                   [] k = "method" -> JStr(req.method)
                   [] k = "params" -> p.v
                   [] k = "id" -> JNum(req.id)
                   [] k = "auth" -> IF req.auth.some THEN JStr(req.auth.v) ELSE JNull]))

\* The bearer credential send_post_request attaches: only under v7, only when
\* a session is given
BearerAuth(v, session) == IF session.some /\ v = "v7" THEN session ELSE None

\* The HTTP request send_post_request posts
HttpRequest(v, url, session, body) ==
    [url |-> url, body |-> body, content_type |-> "application/json",
     bearer |-> BearerAuth(v, session)]

----------------------------------------------------------------------------
(* What the network and the server may answer *)

Statuses == {200, 201, 500}

\* The type the operation decodes `result` as: a String, a Vec of entities
\* (raw_api_call is instantiated with R = Vec<ZabbixHost>, as in its test), or
\* a struct holding one list of id strings
ResultShape(op) ==
    IF op \in UnauthOps THEN "string"
    ELSE IF op \in IdListOps THEN "ids" ELSE "entities"

\* The serde name of the id list in the operation's response struct
IdField(op) ==
    CASE op = "create_host_group" -> "groupids"
      [] op \in {"create_host", "update_host", "delete_hosts"} -> "hostids"
      [] op = "create_item" -> "itemids"
      [] op = "create_trigger" -> "triggerids"
      [] op = "create_webscenario" -> "httptestids"
      [] op = "create_user_group" -> "usrgrpids"
      [] op = "create_user" -> "userids"

\* Id strings a server may put first in an id list, and after the first
IdStrings == {"", "0", "42", "007", "+5", "12a", "4294967295", "4294967296"}
TailIds == {"7", "x"}
IdLists ==
    {<<>>} \cup {<<h>> \o t : h \in IdStrings, t \in SeqsUpTo(TailIds, MaxLen - 1)}

WireEntities == {JObj([id |-> JStr("10084"), name |-> JStr("Zabbix server")]),
                 JObj([id |-> JStr("10085"), name |-> JStr("db-1")])}

\* The values of the `result` key: well typed for the operation, or not
WireResults(op) ==
    {JNull, JNum(7)} \cup
    CASE ResultShape(op) = "string" ->
             {JStr(""), JStr("0424bd59b807674191e7d77572075f33")}
      [] ResultShape(op) = "entities" ->
             {JArr(es) : es \in SeqsUpTo(WireEntities, MaxLen)}
      [] ResultShape(op) = "ids" ->
             {JObj([k \in {IdField(op)} |-> JArr([i \in DOMAIN ids |-> JStr(ids[i])])]) :
                 ids \in IdLists}
             \cup {JObj([k \in {"ids"} |-> JArr(<<JStr("42")>>)])}

\* The values of the `error` key: null, error objects lacking `data`, `code`
\* or `message`, and well-formed error objects
WireErrors ==
    {JNull,
     JObj([code |-> JNum(-32602), message |-> JStr("Invalid params.")]),
     JObj([message |-> JStr("Invalid params."), data |-> JStr("Not authorized.")]),
     JObj([code |-> JNum(-32602), data |-> JStr("Not authorized.")]),
     JObj([code |-> JNum(-32602), message |-> JStr("Invalid params."),
           data |-> JStr("Login name or password is incorrect.")]),
     JObj([code |-> JNum(-32500), message |-> JStr("Application error."), data |-> JStr("")])}

WireVersions == {JStr("2.0"), JStr("1.0")}
\* `id`: the id of the request, the ends of the i8 range, the first integer
\* above it, and null
WireIds == {JNum(1), JNum(-128), JNum(127), JNum(128), JNull}

Optional(S) == {None} \cup {Some(x) : x \in S}

\* The JSON object holding the keys that are given
BodyObj(j, r, i, e) ==
    LET F == [jsonrpc |-> j, result |-> r, id |-> i, error |-> e]
    IN  JObj([k \in {key \in DOMAIN F : F[key].some} |-> F[k].v])

Bodies(op) ==
    {Garbage} \cup
    {BodyObj(j, r, i, e) : j \in Optional(WireVersions), r \in Optional(WireResults(op)),
                           i \in Optional(WireIds), e \in Optional(WireErrors)}

\* The transport outcomes: send() fails; the status line arrives and reading
\* the body fails; status and body arrive
NetOutcomes(op) ==
    {[t |-> "send_failed"]}
    \cup {[t |-> "http", status |-> s, body |-> None] : s \in Statuses}
    \cup {[t |-> "http", status |-> s, body |-> Some(b)] : s \in Statuses, b \in Bodies(op)}

----------------------------------------------------------------------------
(* Decoding the response envelope *)

I32Min == -2147483647 - 1
I32Max == 2147483647

Field(j, k) == IF k \in DOMAIN j.obj THEN Some(j.obj[k]) ELSE None

IsStr(j) == j.t = "str"

\* ZabbixError decoded with `data` defaulting to the empty string
DecodeZabbixError_DataOptional(j) ==
    IF /\ j.t = "obj"
       /\ {"code", "message"} \subseteq DOMAIN j.obj
       /\ j.obj.code.t = "num" /\ j.obj.code.num \in I32Min..I32Max
       /\ IsStr(j.obj.message)
       /\ "data" \in DOMAIN j.obj => IsStr(j.obj.data)
    THEN Some([code |-> j.obj.code.num, message |-> j.obj.message.str,
               data |-> IF "data" \in DOMAIN j.obj THEN j.obj.data.str ELSE ""])
    ELSE None

\* ZabbixError: code, message and data are all required
DecodeZabbixError(j) ==
    IF /\ j.t = "obj"
       /\ {"code", "message", "data"} \subseteq DOMAIN j.obj
       /\ j.obj.code.t = "num" /\ j.obj.code.num \in I32Min..I32Max
       /\ IsStr(j.obj.message) /\ IsStr(j.obj.data)
    THEN Some([code |-> j.obj.code.num, message |-> j.obj.message.str,
               data |-> j.obj.data.str])
    ELSE None

\* An entity of the catalog: a struct of required string fields
DecodeEntity(j) ==
    IF /\ j.t = "obj" /\ {"id", "name"} \subseteq DOMAIN j.obj
       /\ IsStr(j.obj.id) /\ IsStr(j.obj.name)
    THEN Some([id |-> j.obj.id.str, name |-> j.obj.name.str])
    ELSE None

\* The response struct of a create, update or delete: one Vec<String> under
\* the operation's serde name
DecodeIds(op, j) ==
    IF /\ j.t = "obj"
       /\ IdField(op) \in DOMAIN j.obj
       /\ j.obj[IdField(op)].t = "arr"
       /\ \A i \in DOMAIN j.obj[IdField(op)].arr : IsStr(j.obj[IdField(op)].arr[i])
    THEN Some([i \in DOMAIN j.obj[IdField(op)].arr |-> j.obj[IdField(op)].arr[i].str])
    ELSE None

\* Deserialize of R, the operation's result type
DecodeResult(op, j) ==
    CASE ResultShape(op) = "string" -> IF IsStr(j) THEN Some(j.str) ELSE None
      [] ResultShape(op) = "entities" ->
             IF j.t = "arr" /\ \A i \in DOMAIN j.arr : DecodeEntity(j.arr[i]).some
             THEN Some([i \in DOMAIN j.arr |-> DecodeEntity(j.arr[i]).v])
             ELSE None
      [] ResultShape(op) = "ids" -> DecodeIds(op, j)

\* DecodeOption with the field required, as for a field of type T
DecodeOption_Required(f, decoded) ==
    IF ~f.some THEN Err(UnsupportedApiError)
    ELSE IF f.v.t = "null" THEN Ok(None)
    ELSE IF decoded.some THEN Ok(decoded) ELSE Err(UnsupportedApiError)

\* An Option<T> field: a missing key and null are None, anything else must
\* decode as T. Ok(option) or Err
DecodeOption(f, decoded) ==
    IF ~f.some \/ f.v.t = "null" THEN Ok(None)
    ELSE IF decoded.some THEN Ok(decoded) ELSE Err(UnsupportedApiError)

\* from_str accepting only the id and the version of the request
DecodeResponse_MatchesRequest(op, body) ==
    IF body.t # "obj" THEN Err(UnsupportedApiError)
    ELSE LET j == Field(body, "jsonrpc")
             i == Field(body, "id")
             r == Field(body, "result")
             e == Field(body, "error")
             res == DecodeOption(r, IF r.some /\ r.v.t # "null"
                                    THEN DecodeResult(op, r.v) ELSE None)
             er == DecodeOption(e, IF e.some /\ e.v.t # "null"
                                   THEN DecodeZabbixError(e.v) ELSE None)
         IN  IF /\ j.some /\ j.v = JStr(JSON_RPC_VERSION)
                /\ i.some /\ i.v = JNum(REQUEST_ID)
                /\ res.ok /\ er.ok
             THEN Ok([jsonrpc |-> j.v.str, result |-> res.v, id |-> i.v.num, error |-> er.v])
             ELSE Err(UnsupportedApiError)

\* serde_json::from_str::<ZabbixApiResponse<R>>: jsonrpc (String) and id (i8)
\* are required, result and error are Options
DecodeResponse(op, body) ==
    IF body.t # "obj" THEN Err(UnsupportedApiError)
    ELSE LET j == Field(body, "jsonrpc")
             i == Field(body, "id")
             r == Field(body, "result")
             e == Field(body, "error")
             res == DecodeOption(r, IF r.some /\ r.v.t # "null"
                                    THEN DecodeResult(op, r.v) ELSE None)
             er == DecodeOption(e, IF e.some /\ e.v.t # "null"
                                   THEN DecodeZabbixError(e.v) ELSE None)
         IN  IF /\ j.some /\ IsStr(j.v)
                /\ i.some /\ i.v.t = "num" /\ i.v.num \in I8Min..I8Max
                /\ res.ok /\ er.ok
             THEN Ok([jsonrpc |-> j.v.str, result |-> res.v, id |-> i.v.num, error |-> er.v])
             ELSE Err(UnsupportedApiError)

----------------------------------------------------------------------------
(* Parsing the first id *)

Digits == <<"0", "1", "2", "3", "4", "5", "6", "7", "8", "9">>
IsDigit(ch) == \E d \in DOMAIN Digits : Digits[d] = ch
DigitVal(ch) == (CHOOSE d \in DOMAIN Digits : Digits[d] = ch) - 1

\* The characters of the id strings of the model
Chars(s) ==
    CASE s = "" -> <<>>
      [] s = "0" -> <<"0">>
      [] s = "7" -> <<"7">>
      [] s = "x" -> <<"x">>
      [] s = "42" -> <<"4", "2">>
      [] s = "007" -> <<"0", "0", "7">>
      [] s = "+5" -> <<"+", "5">>
      [] s = "12a" -> <<"1", "2", "a">>
      [] s = "4294967295" -> <<"4", "2", "9", "4", "9", "6", "7", "2", "9", "5">>
      [] s = "4294967296" -> <<"4", "2", "9", "4", "9", "6", "7", "2", "9", "6">>

\* A u32 is held as its decimal numeral, most significant digit first and
\* without leading zeros: u32::MAX is 4294967295
U32MaxNumeral == <<4, 2, 9, 4, 9, 6, 7, 2, 9, 5>>

RECURSIVE StripZeros(_)
StripZeros(ds) ==
    IF Len(ds) > 1 /\ Head(ds) = 0 THEN StripZeros(Tail(ds)) ELSE ds

\* a <= b for numerals of equal length
RECURSIVE NumeralLE(_, _)
NumeralLE(a, b) ==
    IF a = <<>> THEN TRUE
    ELSE IF Head(a) # Head(b) THEN Head(a) < Head(b)
    ELSE NumeralLE(Tail(a), Tail(b))

\* FitsU32 going by the number of digits alone
FitsU32_ByLength(n) == Len(n) <= Len(U32MaxNumeral)

FitsU32(n) ==
    \/ Len(n) < Len(U32MaxNumeral)
    \/ Len(n) = Len(U32MaxNumeral) /\ NumeralLE(n, U32MaxNumeral)

\* str::parse::<u32>: an empty string and a lone sign are errors, one leading
\* '+' is accepted, every other character must be a decimal digit and the
\* value must fit 32 bits. Some(numeral) or None
ParseU32(s) ==
    LET cs == Chars(s)
        ds == IF cs # <<>> /\ Head(cs) = "+" THEN Tail(cs) ELSE cs
    IN  IF cs = <<>> \/ ds = <<>> THEN None
        ELSE IF \E i \in DOMAIN ds : ~IsDigit(ds[i]) THEN None
        ELSE LET n == StripZeros([i \in DOMAIN ds |-> DigitVal(ds[i])])
             IN  IF FitsU32(n) THEN Some(n) ELSE None

\* FirstId taking the last id of the list
FirstId_LastId(ids) ==
    IF ids = <<>> THEN Err(LocalError)
    ELSE IF ParseU32(ids[Len(ids)]).some THEN Ok(ParseU32(ids[Len(ids)]).v)
    ELSE Err(LocalError)

\* u32::to_string: the decimal digits of the value, without sign or leading
\* zeros
to_string(n) == [i \in DOMAIN n |-> Digits[n[i] + 1]]

\* FirstId indexing the list without looking at its length: on an empty list
\* the thread panics and no Result is returned
FirstId_IndexUnchecked(ids) ==
    IF ids = <<>> THEN [panic |-> "index out of bounds"]
    ELSE IF ParseU32(Head(ids)).some THEN Ok(ParseU32(Head(ids)).v) ELSE Err(LocalError)

\* The extraction every create operation and update_host repeats: the first
\* id of the list, parsed
FirstId(ids) ==
    IF ids = <<>> THEN Err(LocalError)
    ELSE IF ParseU32(Head(ids)).some THEN Ok(ParseU32(Head(ids)).v) ELSE Err(LocalError)

----------------------------------------------------------------------------
(* The operations *)

\* ReceiveResponse with every 2xx status taken for success
ReceiveResponse_AnySuccess(n) ==
    IF n.t = "send_failed" THEN Err(NetworkError)
    ELSE IF ~n.body.some THEN Err(NetworkError)
    ELSE IF n.status >= 200 /\ n.status <= 299 THEN Ok(n.body.v)
    ELSE Err(BadRequestError)

\* ReceiveResponse with the status looked at before the body is read
ReceiveResponse_StatusFirst(n) ==
    IF n.t = "send_failed" THEN Err(NetworkError)
    ELSE IF n.status # StatusOK THEN Err(BadRequestError)
    ELSE IF ~n.body.some THEN Err(NetworkError)
    ELSE Ok(n.body.v)

\* send_post_request after the request was sent: the body is read, then the
\* status is looked at
ReceiveResponse(n) ==
    IF n.t = "send_failed" THEN Err(NetworkError)
    ELSE IF ~n.body.some THEN Err(NetworkError)
    ELSE IF n.status = StatusOK THEN Ok(n.body.v)
    ELSE Err(BadRequestError)

\* OnResult with an empty list taken for a failure
OnResult_EmptyIsError(op, response) ==
    IF op \in FirstIdOps THEN FirstId(response.result.v)
    ELSE IF ResultShape(op) = "entities" /\ Len(response.result.v) = 0
         THEN Err(BadRequestError)
    ELSE IF op = "raw_api_call" THEN Ok(response)
    ELSE Ok(response.result.v)

\* OnResult with delete_hosts written after update_host: the first id alone,
\* and an empty list an error
OnResult_DeleteFirstIdOnly(op, response) ==
    IF op = "raw_api_call" THEN Ok(response)
    ELSE IF op \in FirstIdOps THEN FirstId(response.result.v)
    ELSE IF op = "delete_hosts"
         THEN IF response.result.v = <<>> THEN Err(LocalError)
              ELSE Ok(<<Head(response.result.v)>>)
    ELSE Ok(response.result.v)

\* OnResult with one copy of the extraction, create_item's, taking the last id
OnResult_ItemTakesLastId(op, response) ==
    IF op = "raw_api_call" THEN Ok(response)
    ELSE IF op = "create_item" THEN FirstId_LastId(response.result.v)
    ELSE IF op \in FirstIdOps THEN FirstId(response.result.v)
    ELSE Ok(response.result.v)

\* What an operation returns for Some(result)
OnResult(op, response) ==
    IF op = "raw_api_call" THEN Ok(response)
    ELSE IF op \in FirstIdOps THEN FirstId(response.result.v)
    ELSE Ok(response.result.v)

\* Classify with the remote error's data dropped
Classify_DataDropped(op, response) ==
    IF response.result.some THEN OnResult(op, response)
    ELSE IF response.error.some
         THEN Err(ApiCallError([response.error.v EXCEPT !.data = ""]))
    ELSE Err(BadRequestError)

\* Classify with an envelope that has neither field reported as a remote error
Classify_NeitherIsApiError(op, response) ==
    IF response.result.some THEN OnResult(op, response)
    ELSE IF response.error.some THEN Err(ApiCallError(response.error.v))
    ELSE Err(ApiCallError([code |-> 0, message |-> "", data |-> ""]))

\* Classify with raw_api_call handing every decoded envelope to the caller
Classify_RawHandsOver(op, response) ==
    IF op = "raw_api_call" THEN Ok(response)
    ELSE IF response.result.some THEN OnResult(op, response)
    ELSE IF response.error.some THEN Err(ApiCallError(response.error.v))
    ELSE Err(BadRequestError)

\* Classify with the error looked at first
Classify_ErrorFirst(op, response) ==
    IF response.error.some THEN Err(ApiCallError(response.error.v))
    ELSE IF response.result.some THEN OnResult(op, response)
    ELSE Err(BadRequestError)

\* match response.result { Some => .., None => match response.error { .. } }
Classify(op, response) ==
    IF response.result.some THEN OnResult(op, response)
    ELSE IF response.error.some THEN Err(ApiCallError(response.error.v))
    ELSE Err(BadRequestError)

\* Handle with a body that does not decode reported as a bad request
Handle_DecodeErrorIsBadRequest(op, n) ==
    LET received == ReceiveResponse(n)
    IN  IF ~received.ok THEN received
        ELSE LET decoded == DecodeResponse(op, received.v)
             IN  IF ~decoded.ok THEN Err(BadRequestError) ELSE Classify(op, decoded.v)

\* An operation from the outcome of the exchange to its return value
Handle(op, n) ==
    LET received == ReceiveResponse(n)
    IN  IF ~received.ok THEN received
        ELSE LET decoded == DecodeResponse(op, received.v)
             IN  IF ~decoded.ok THEN decoded ELSE Classify(op, decoded.v)

\* AfterOutcome with a failed call sent again
AfterOutcome_Retry(r) == IF r.ok THEN "done" ELSE "built"

\* AfterOutcome with a call the server refused (an expired session, say) sent
\* once more
AfterOutcome_ResendOnRemoteError(r) ==
    IF ~r.ok /\ r.err.kind = "ApiCallError" THEN "built" ELSE "done"

\* AfterOutcome with a call that failed in the transport tried again until it
\* gets through
AfterOutcome_RetryUntilSent(r) ==
    IF ~r.ok /\ r.err.kind = "NetworkError" THEN "built" ELSE "done"

\* Where an operation goes once it has its outcome: it returns it
AfterOutcome(r) == "done"

----------------------------------------------------------------------------
(* Callers sharing one handle *)

\* The callers (threads) that share one ZabbixApiClientImpl
NumCallers == 2
Callers == 1 .. NumCallers

\* What the callers invoke, and what the server and the network answer them
SharedCalls ==
    {c \in Calls :
        \/ (c.op = "get_auth_session" /\ c.login = "Admin" /\ c.token = "zabbix")
        \/ (c.op = "create_host" /\ c.session # "")
        \/ (c.op = "get_hosts" /\ c.session # "" /\ c.params.kind = "struct")
        \/ (c.op = "raw_api_call" /\ c.session # "" /\ c.method = "host.get"
                /\ c.params.kind = "badmap")}
SharedResults(op) ==
    CASE ResultShape(op) = "string" -> {JStr("0424bd59b807674191e7d77572075f33")}
      [] ResultShape(op) = "entities" ->
             {JArr(<<>>)} \cup {JArr(<<e>>) : e \in WireEntities}
      [] ResultShape(op) = "ids" ->
             {JObj([k \in {IdField(op)} |-> JArr([i \in DOMAIN ids |-> JStr(ids[i])])]) :
                 ids \in {<<>>, <<"42">>, <<"7">>}}
SharedOutcomes(op) ==
    {[t |-> "send_failed"], [t |-> "http", status |-> 500, body |-> Some(Garbage)]}
    \cup {[t |-> "http", status |-> 200,
           body |-> Some(BodyObj(Some(JStr("2.0")), Some(r), Some(JNum(1)), None))] :
              r \in SharedResults(op)}
    \cup {[t |-> "http", status |-> 200,
           body |-> Some(BodyObj(Some(JStr("2.0")), None, Some(JNum(1)),
                                 Some(JObj([code |-> JNum(-32602),
                                            message |-> JStr("Invalid params."),
                                            data |-> JStr("Session terminated.")]))))]}

\* A caller that is not in a call
IdleThread ==
    [pc |-> "idle", call |-> None, api_request |-> None, response |-> None, ret |-> None]

\* Delivered handing a caller whatever answer arrived, its own or not
Delivered_AnyAnswer(t, w) ==
    LET u == CHOOSE x \in Callers :
                 /\ w[x].some /\ w[x].v.answer.some
                 /\ (x = t => \A y \in Callers \ {t} : ~(w[y].some /\ w[y].v.answer.some))
    IN  w[u].v.answer.v

\* send() returns the response of the request it sent: the answer on the
\* caller's own exchange
Delivered(t, w) == w[t].v.answer.v

----------------------------------------------------------------------------
(* State *)

VARIABLES
    variant,            \* the protocol variant the crate was built with
    client,             \* ZabbixApiClientImpl.client, the HTTP client handed in
    api_endpoint_url,   \* ZabbixApiClientImpl.api_endpoint_url
    pc,                 \* where the call is: idle, built, posted, done
    call,               \* the operation invoked and its arguments
    api_request,        \* the envelope get_api_request built
    http_request,       \* the HTTP request posted
    posts,              \* HTTP POSTs made by this invocation
    response,           \* the outcome of the exchange
    ret,                \* the value the operation returns
    threads,            \* callers sharing the handle: each one's call, as above
    wire                \* the HTTP exchange of each such caller

vars == <<variant, client, api_endpoint_url, pc, call, api_request, http_request, posts,
          response, ret, threads, wire>>

Init ==
    /\ variant \in Variants
    /\ client = "reqwest::blocking::Client"
    /\ api_endpoint_url = "http://localhost:3080/api_jsonrpc.php"
    /\ pc = "idle"
    /\ call = None
    /\ api_request = None
    /\ http_request = None
    /\ posts = 0
    /\ response = None
    /\ ret = None
    /\ threads = [t \in Callers |-> IdleThread]
    /\ wire = [t \in Callers |-> None]

\* A caller invokes an operation: the envelope is built
Invoke ==
    /\ pc = "idle"
    /\ \E c \in Calls :
          /\ call' = Some(c)
          /\ api_request' =
                 Some(get_api_request(variant, Method(c), Params(c), SessionArg(c)))
    /\ pc' = "built"
    /\ UNCHANGED <<variant, client, api_endpoint_url, http_request, posts, response, ret,
                   threads, wire>>

\* send_post_request posting whether or not the envelope could be serialized
Post_SendsUnserialized ==
    /\ pc = "built"
    /\ LET body == SerializeRequest(api_request.v)
       IN  /\ http_request' = Some(HttpRequest(variant, api_endpoint_url, SessionArg(call.v),
                                               IF body.some THEN body.v ELSE JNull))
           /\ posts' = posts + 1
           /\ pc' = "posted"
           /\ UNCHANGED ret
    /\ UNCHANGED <<variant, client, api_endpoint_url, call, api_request, response,
                   threads, wire>>

\* send_post_request up to send(): the envelope is serialized, which may fail,
\* and posted
Post ==
    /\ pc = "built"
    /\ LET body == SerializeRequest(api_request.v)
       IN  IF body.some
           THEN /\ http_request' = Some(HttpRequest(variant, api_endpoint_url,
                                                    SessionArg(call.v), body.v))
                /\ posts' = posts + 1
                /\ pc' = "posted"
                /\ UNCHANGED ret
           ELSE /\ ret' = Some(Err(UnsupportedApiError))
                /\ pc' = AfterOutcome(Err(UnsupportedApiError))
                /\ UNCHANGED <<http_request, posts>>
    /\ UNCHANGED <<variant, client, api_endpoint_url, call, api_request, response,
                   threads, wire>>

\* The exchange ends with one of `outcomes`, and the operation computes what
\* it returns
ExchangeWith(outcomes) ==
    /\ pc = "posted"
    /\ \E n \in outcomes :
          /\ response' = Some(n)
          /\ ret' = Some(Handle(call.v.op, n))
          /\ pc' = AfterOutcome(Handle(call.v.op, n))
    /\ UNCHANGED <<variant, client, api_endpoint_url, call, api_request, http_request, posts,
                   threads, wire>>

Exchange == ExchangeWith(NetOutcomes(call.v.op))

\* Return with the handle keeping the last response and its outcome
Return_KeepsLastResponse ==
    /\ pc = "done"
    /\ pc' = "idle"
    /\ call' = None
    /\ api_request' = None
    /\ http_request' = None
    /\ posts' = 0
    /\ UNCHANGED <<variant, client, api_endpoint_url, response, ret, threads, wire>>

\* The operation returns: nothing of the call is kept
Return ==
    /\ pc = "done"
    /\ pc' = "idle"
    /\ call' = None
    /\ api_request' = None
    /\ http_request' = None
    /\ posts' = 0
    /\ response' = None
    /\ ret' = None
    /\ UNCHANGED <<variant, client, api_endpoint_url, threads, wire>>

Next == Invoke \/ Post \/ Exchange \/ Return

Spec == Init /\ [][Next]_vars

\* The same call followed to its end: the call runs on a thread that is
\* scheduled, so a step the code can take is taken, and the exchange is
\* assumed to end, with a response or with a failure
LiveExchange == ExchangeWith(SharedOutcomes(call.v.op))

NextLive == Invoke \/ Post \/ LiveExchange \/ Return

SpecLive ==
    /\ Init /\ [][NextLive]_vars
    /\ WF_vars(Post) /\ WF_vars(LiveExchange) /\ WF_vars(Return)

----------------------------------------------------------------------------
(* Several callers on one handle: each runs the same operation code on its  *)
(* own locals; the handle is all they share                                 *)

single == <<pc, call, api_request, http_request, posts, response, ret>>

\* Caller t invokes an operation
TInvoke(t) ==
    /\ threads[t].pc = "idle"
    /\ \E c \in SharedCalls :
          threads' = [threads EXCEPT ![t] =
              [@ EXCEPT !.pc = "built", !.call = Some(c),
                        !.api_request =
                            Some(get_api_request(variant, Method(c), Params(c),
                                                 SessionArg(c)))]]
    /\ UNCHANGED <<variant, client, api_endpoint_url, wire, single>>

\* Caller t serializes its envelope and posts it on an exchange of its own
TPost(t) ==
    /\ threads[t].pc = "built"
    /\ LET body == SerializeRequest(threads[t].api_request.v)
       IN  IF body.some
           THEN /\ wire' = [wire EXCEPT ![t] =
                        Some([request |-> HttpRequest(variant, api_endpoint_url,
                                                      SessionArg(threads[t].call.v), body.v),
                              answer |-> None])]
                /\ threads' = [threads EXCEPT ![t].pc = "posted"]
           ELSE /\ threads' = [threads EXCEPT ![t] =
                        [@ EXCEPT !.pc = AfterOutcome(Err(UnsupportedApiError)),
                                  !.ret = Some(Err(UnsupportedApiError))]]
                /\ UNCHANGED wire
    /\ UNCHANGED <<variant, client, api_endpoint_url, single>>

\* The network and the server answer the exchange of caller t
TAnswer(t) ==
    /\ wire[t].some /\ ~wire[t].v.answer.some
    /\ \E n \in SharedOutcomes(threads[t].call.v.op) :
          wire' = [wire EXCEPT ![t] = Some([@.v EXCEPT !.answer = Some(n)])]
    /\ UNCHANGED <<variant, client, api_endpoint_url, threads, single>>

\* Caller t gets the response and computes what it returns
TReceive(t) ==
    /\ threads[t].pc = "posted"
    /\ wire[t].some /\ wire[t].v.answer.some
    /\ LET n == Delivered(t, wire)
           r == Handle(threads[t].call.v.op, n)
       IN  threads' = [threads EXCEPT ![t] =
               [@ EXCEPT !.pc = AfterOutcome(r), !.response = Some(n), !.ret = Some(r)]]
    /\ UNCHANGED <<variant, client, api_endpoint_url, wire, single>>

\* Caller t returns
TReturn(t) ==
    /\ threads[t].pc = "done"
    /\ threads' = [threads EXCEPT ![t] = IdleThread]
    /\ wire' = [wire EXCEPT ![t] = None]
    /\ UNCHANGED <<variant, client, api_endpoint_url, single>>

NextShared ==
    \E t \in Callers : TInvoke(t) \/ TPost(t) \/ TAnswer(t) \/ TReceive(t) \/ TReturn(t)

SpecShared == Init /\ [][NextShared]_vars

----------------------------------------------------------------------------
(* Vocabulary of the properties: what is on the wire, stated on the JSON    *)
(* text of the response and not through the decoder                         *)

Exchanged == pc = "done" /\ response.some
TheOp == call.v.op
\* the HTTP status is 200 and the body was read
Http200 == Exchanged /\ response.v.t = "http" /\ response.v.status = 200
           /\ response.v.body.some
TheBody == response.v.body.v

HasKey(b, k) == k \in DOMAIN b.obj
\* a key that is missing or null
Absent(b, k) == ~HasKey(b, k) \/ b.obj[k].t = "null"

\* `jsonrpc` is a string and `id` an integer of the signed 8-bit range
HeaderFits(b) ==
    /\ b.t = "obj"
    /\ HasKey(b, "jsonrpc") /\ b.obj["jsonrpc"].t = "str"
    /\ HasKey(b, "id") /\ b.obj["id"].t = "num"
    /\ b.obj["id"].num >= -128 /\ b.obj["id"].num <= 127

\* an error object with code, message and data
ErrorFits(j) ==
    /\ j.t = "obj"
    /\ {"code", "message", "data"} \subseteq DOMAIN j.obj
    /\ j.obj["code"].t = "num" /\ j.obj["message"].t = "str" /\ j.obj["data"].t = "str"

\* a list of entities; an object holding a list of strings under key f
EntityListFits(j) ==
    /\ j.t = "arr"
    /\ \A i \in DOMAIN j.arr :
          /\ j.arr[i].t = "obj"
          /\ {"id", "name"} \subseteq DOMAIN j.arr[i].obj
          /\ j.arr[i].obj["id"].t = "str" /\ j.arr[i].obj["name"].t = "str"
IdListFits(j, f) ==
    /\ j.t = "obj" /\ f \in DOMAIN j.obj /\ j.obj[f].t = "arr"
    /\ \A i \in DOMAIN j.obj[f].arr : j.obj[f].arr[i].t = "str"

\* the value under `result` has the type the operation expects
ResultFits(op, j) ==
    IF op \in UnauthOps THEN j.t = "str"
    ELSE IF op \in IdListOps THEN IdListFits(j, IdField(op))
    ELSE EntityListFits(j)

\* An envelope with result present and error absent; with error present and
\* result absent; with neither
ResultOnly(op, b) ==
    /\ HeaderFits(b) /\ ~Absent(b, "result") /\ ResultFits(op, b.obj["result"])
    /\ Absent(b, "error")
ErrorOnly(b) ==
    /\ HeaderFits(b) /\ Absent(b, "result")
    /\ ~Absent(b, "error") /\ ErrorFits(b.obj["error"])
Neither(b) == HeaderFits(b) /\ Absent(b, "result") /\ Absent(b, "error")

\* the entity list `es` an operation returned is the list `j` of the wire
SameEntities(es, j) ==
    /\ DOMAIN es = DOMAIN j.arr
    /\ \A i \in DOMAIN es :
          /\ es[i].id = j.arr[i].obj["id"].str
          /\ es[i].name = j.arr[i].obj["name"].str

----------------------------------------------------------------------------
(* Properties *)

\* C1: for raw_api_call and every get_* operation, an HTTP-200 response whose
\* envelope has `result` present and `error` absent makes the operation return
\* success carrying exactly that result (raw_api_call: the envelope holding
\* it); an empty list is a success too.
C1_ResultReturned ==
    (Http200 /\ TheOp \in GetOps \cup {"raw_api_call"} /\ ResultOnly(TheOp, TheBody)) =>
        /\ ret.v.ok
        /\ IF TheOp = "raw_api_call"
           THEN /\ ret.v.v.result.some
                /\ SameEntities(ret.v.v.result.v, TheBody.obj["result"])
                /\ ret.v.v.jsonrpc = TheBody.obj["jsonrpc"].str
                /\ ret.v.v.id = TheBody.obj["id"].num
                /\ ~ret.v.v.error.some
           ELSE SameEntities(ret.v.v, TheBody.obj["result"])

\* a get operation answered with an empty list returned the empty list
C1_Witness ==
    /\ Http200 /\ TheOp = "get_host_groups" /\ ResultOnly(TheOp, TheBody)
    /\ TheBody.obj["result"].arr = <<>>
    /\ ret.v.ok /\ ret.v.v = <<>>

\* C2: for every operation, an HTTP-200 response whose envelope has `error`
\* present and `result` absent makes the operation return ApiCallError
\* wrapping exactly the code, message and data of the response, never
\* NetworkError or BadRequestError.
C2_RemoteErrorWrapped ==
    (Http200 /\ ErrorOnly(TheBody)) =>
        /\ ~ret.v.ok
        /\ ret.v.err.kind = "ApiCallError"
        /\ ret.v.err.zabbix.code = TheBody.obj["error"].obj["code"].num
        /\ ret.v.err.zabbix.message = TheBody.obj["error"].obj["message"].str
        /\ ret.v.err.zabbix.data = TheBody.obj["error"].obj["data"].str

\* a login that the server refused returned the server's error
C2_Witness ==
    /\ Http200 /\ TheOp = "get_auth_session" /\ ErrorOnly(TheBody)
    /\ ret.v = Err(ApiCallError([code |-> -32602, message |-> "Invalid params.",
                                 data |-> "Login name or password is incorrect."]))

\* C3: for every operation, an HTTP-200 response whose envelope decodes but has
\* neither `result` nor `error` makes the operation return BadRequestError.
C3_NeitherIsBadRequest ==
    (Http200 /\ Neither(TheBody)) => ret.v = Err(BadRequestError)

\* a create operation answered with neither field returned BadRequestError
C3_Witness ==
    /\ Http200 /\ TheOp = "create_host" /\ Neither(TheBody)
    /\ ~HasKey(TheBody, "result") /\ ~HasKey(TheBody, "error")
    /\ ret.v = Err(BadRequestError)

\* the HTTP status is not 200
NonOk == Exchanged /\ response.v.t = "http" /\ response.v.status # 200

\* C4 as stated: every response whose status is not 200 OK makes the operation
\* return BadRequestError.
C4_NonOkIsBadRequest == NonOk => ret.v = Err(BadRequestError)

\* C4, amended: every response whose status is not 200 OK and whose body was
\* read makes the operation return BadRequestError, whatever the body holds
\* (the body is not decoded); when reading the body fails the operation
\* returns NetworkError.
C4_NonOkReadIsBadRequest ==
    NonOk => IF response.v.body.some THEN ret.v = Err(BadRequestError)
             ELSE ret.v = Err(NetworkError)

\* a status 500 whose body is a well-formed success envelope
C4_Witness ==
    /\ NonOk /\ response.v.status = 500 /\ response.v.body.some
    /\ TheOp = "get_hosts" /\ ResultOnly(TheOp, TheBody)
    /\ ret.v = Err(BadRequestError)

\* the body has the shape of the envelope the operation expects
EnvelopeFits(op, b) ==
    /\ HeaderFits(b)
    /\ Absent(b, "result") \/ ResultFits(op, b.obj["result"])
    /\ Absent(b, "error") \/ ErrorFits(b.obj["error"])

\* C5: decoding an HTTP-200 body fails, with UnsupportedApiError, exactly when
\* the body is not JSON or does not match the envelope shape for the expected
\* result type; a well-formed envelope without `result` does not fail to
\* decode.
C5_DecodeFailsOnlyOnShape ==
    Http200 => /\ (ret.v = Err(UnsupportedApiError)) <=> ~EnvelopeFits(TheOp, TheBody)
               /\ (EnvelopeFits(TheOp, TheBody) /\ ~HasKey(TheBody, "result")) =>
                      (~ret.v.ok /\ ret.v.err.kind \in {"ApiCallError", "BadRequestError"})

\* an envelope without the `result` key was decoded and classified
C5_Witness ==
    /\ Http200 /\ EnvelopeFits(TheOp, TheBody) /\ ~HasKey(TheBody, "result")
    /\ ~ret.v.ok /\ ret.v.err.kind = "ApiCallError"

\* A success envelope of a create-style operation, and its id list
IdSuccess ==
    /\ Http200 /\ TheOp \in FirstIdOps /\ EnvelopeFits(TheOp, TheBody)
    /\ ~Absent(TheBody, "result")
WireIdList(op, b) ==
    [i \in DOMAIN b.obj["result"].obj[IdField(op)].arr |->
        b.obj["result"].obj[IdField(op)].arr[i].str]
TheIds == WireIdList(TheOp, TheBody)

\* one or more decimal digits, and the numeral they denote
IsDecimal(cs) ==
    cs # <<>> /\ \A i \in DOMAIN cs : cs[i] \in {"0", "1", "2", "3", "4", "5", "6", "7", "8", "9"}
NumeralOf(cs) == StripZeros([i \in DOMAIN cs |-> DigitVal(cs[i])])

\* C6 as stated: an empty id list fails with the local error, a first id that
\* is not a decimal unsigned integer fails with the local error, any other
\* first id is returned as the integer it denotes.
C6_FirstIdParsed ==
    IdSuccess =>
        IF TheIds = <<>> THEN ret.v = Err(LocalError)
        ELSE IF ~IsDecimal(Chars(TheIds[1])) THEN ret.v = Err(LocalError)
        ELSE ret.v = Ok(NumeralOf(Chars(TheIds[1])))

\* C6, amended: an empty id list fails with the local error; a first id that
\* is not one optional '+' followed by decimal digits, or that denotes an
\* integer above 4294967295, fails with the local error; any other first id is
\* returned as the integer it denotes; the ids after the first do not matter.
C6_FirstIdParsedU32 ==
    IdSuccess =>
        IF TheIds = <<>> THEN ret.v = Err(LocalError)
        ELSE LET cs == Chars(TheIds[1])
                 ds == IF cs # <<>> /\ cs[1] = "+" THEN Tail(cs) ELSE cs
             IN  IF ~IsDecimal(ds) THEN ret.v = Err(LocalError)
                 ELSE IF ~FitsU32(NumeralOf(ds)) THEN ret.v = Err(LocalError)
                 ELSE ret.v = Ok(NumeralOf(ds))

\* a list whose first id is 42 and whose second is not a number gave 42
C6_Witness ==
    /\ IdSuccess /\ TheOp = "create_user"
    /\ TheIds = <<"42", "x">>
    /\ ret.v = Ok(<<4, 2>>)

\* the exchange that answers 200 with a success envelope holding `ids`
IdAnswer(op, ids) ==
    [t |-> "http", status |-> 200,
     body |-> Some(BodyObj(Some(JStr("2.0")),
                           Some(JObj([k \in {IdField(op)} |->
                                         JArr([i \in DOMAIN ids |-> JStr(ids[i])])])),
                           Some(JNum(1)), None))]

\* C7: the error a create-style operation returns for an empty id list differs
\* from the error it returns for a non-numeric first id.
C7_FailuresDistinct ==
    (IdSuccess /\ TheIds = <<>>) =>
        \A ids \in IdLists :
            (ids # <<>> /\ ~IsDecimal(Chars(ids[1])) /\ ~Handle(TheOp, IdAnswer(TheOp, ids)).ok)
                => ret.v # Handle(TheOp, IdAnswer(TheOp, ids))

\* C8: an invocation makes at most one HTTP POST, and once it has an outcome,
\* a failure of any kind included, its only step is to return it: nothing is
\* sent again.
C8_OnePostNoRetry ==
    /\ [](posts <= 1)
    /\ [][ret.some => (pc' = "idle" /\ posts' = 0)]_vars

\* a call that failed in the transport after its one POST
C8_Witness == pc = "done" /\ posts = 1 /\ ret.v = Err(NetworkError)

\* C9: an authenticated call carries the session in the body's `auth` and no
\* bearer header under v6; under v7 it carries it as the bearer header and the
\* body has no `auth` key.
C9_AuthPlacement ==
    (http_request.some /\ TheOp \notin UnauthOps) =>
        IF variant = "v6"
        THEN /\ HasKey(http_request.v.body, "auth")
             /\ http_request.v.body.obj["auth"] = JStr(call.v.session)
             /\ ~http_request.v.bearer.some
        ELSE /\ ~HasKey(http_request.v.body, "auth")
             /\ http_request.v.bearer = Some(call.v.session)

\* a v7 request with the bearer header and no `auth` key
C9_Witness ==
    /\ pc = "posted" /\ variant = "v7" /\ TheOp = "create_item"
    /\ call.v.session # ""
    /\ http_request.v.bearer = Some(call.v.session)
    /\ DOMAIN http_request.v.body.obj = {"jsonrpc", "method", "params", "id"}

\* C10: get_auth_session sends user.login with the login under `username` and
\* the secret under `password`, unchanged, whatever they are; it never fails
\* before the exchange; on a success envelope it returns the token as received.
C10_LoginSentAsIs ==
    (call.some /\ TheOp = "get_auth_session") =>
        /\ pc # "built" => http_request.some /\ posts = 1
        /\ http_request.some =>
              /\ http_request.v.body.obj["method"] = JStr("user.login")
              /\ http_request.v.body.obj["params"] =
                     JObj([username |-> JStr(call.v.login), password |-> JStr(call.v.token)])
        /\ (Http200 /\ ResultOnly(TheOp, TheBody)) =>
              ret.v = Ok(TheBody.obj["result"].str)

\* a login with empty credentials was sent and the token returned
C10_Witness ==
    /\ Http200 /\ TheOp = "get_auth_session"
    /\ call.v.login = "" /\ call.v.token = ""
    /\ http_request.v.body.obj["params"] = JObj([username |-> JStr(""), password |-> JStr("")])
    /\ ResultOnly(TheOp, TheBody)
    /\ ret.v = Ok("0424bd59b807674191e7d77572075f33")

\* the method name of the request that was posted
SentMethod == http_request.v.body.obj["method"].str

\* the method name that is fixed in the code of each operation but raw_api_call
FixedMethod(op) ==
    CASE op = "get_api_info" -> "apiinfo.version"
      [] op = "get_auth_session" -> "user.login"
      [] op = "get_host_groups" -> "hostgroup.get"
      [] op = "get_hosts" -> "host.get"
      [] op = "get_items" -> "item.get"
      [] op = "get_triggers" -> "trigger.get"
      [] op = "get_webscenarios" -> "httptest.get"
      [] op = "get_users" -> "user.get"
      [] op = "get_user_groups" -> "usergroup.get"
      [] op = "create_host_group" -> "hostgroup.create"
      [] op = "create_host" -> "host.create"
      [] op = "update_host" -> "host.update"
      [] op = "delete_hosts" -> "host.delete"
      [] op = "create_item" -> "item.create"
      [] op = "create_trigger" -> "trigger.create"
      [] op = "create_webscenario" -> "httptest.create"
      [] op = "create_user_group" -> "usergroup.create"
      [] op = "create_user" -> "user.create"

\* a call that got a remote error returns it: its next step posts nothing and
\* hands the outcome back
RemoteErrorIsReturned ==
    (ret.some /\ ~ret.v.ok /\ ret.v.err.kind = "ApiCallError") =>
        (pc' = "idle" /\ posts' = 0 /\ http_request' = None)

\* C11 as stated: user.login is sent only by get_auth_session, every operation
\* sends its own fixed method name, and a call answered with a remote error
\* returns ApiCallError without sending anything more.
C11_LoginOnlyByGetAuthSession ==
    /\ [](http_request.some =>
              /\ SentMethod = "user.login" => TheOp = "get_auth_session"
              /\ TheOp # "raw_api_call" => SentMethod = FixedMethod(TheOp))
    /\ [][RemoteErrorIsReturned]_vars

\* C11, amended: user.login is sent only by get_auth_session or by a
\* raw_api_call whose caller passed user.login as the method; every operation
\* but raw_api_call sends its own fixed method name and raw_api_call sends the
\* name its caller passed; a call answered with a remote error returns
\* ApiCallError without sending user.login and without sending the call again.
C11_NoReauthentication ==
    /\ [](http_request.some =>
              /\ SentMethod = "user.login" =>
                     \/ TheOp = "get_auth_session"
                     \/ TheOp = "raw_api_call" /\ call.v.method = "user.login"
              /\ TheOp # "raw_api_call" => SentMethod = FixedMethod(TheOp)
              /\ TheOp = "raw_api_call" => SentMethod = call.v.method)
    /\ [](posts <= 1)
    /\ [][RemoteErrorIsReturned]_vars

\* an authenticated call refused by the server ended with the remote error,
\* having posted host.get once
C11_Witness ==
    /\ Http200 /\ TheOp = "get_hosts" /\ ErrorOnly(TheBody)
    /\ call.v.session # ""
    /\ ret.v.err.kind = "ApiCallError"
    /\ posts = 1 /\ SentMethod = "host.get"

\* The classes of failure, read off the wire: the exchange did not complete
\* (nothing came back, or the body could not be read); a 200 body that is not
\* the envelope the operation expects; an envelope with an error object and
\* no result; an id list that is empty or whose first id does not parse
TransportFailed ==
    Exchanged /\ (response.v.t = "send_failed" \/ ~response.v.body.some)
Undecodable == Http200 /\ ~EnvelopeFits(TheOp, TheBody)
NeitherAnswered == Http200 /\ Neither(TheBody)
RemoteError == Http200 /\ ErrorOnly(TheBody)
IdParses(s) ==
    LET cs == Chars(s)
        ds == IF cs # <<>> /\ cs[1] = "+" THEN Tail(cs) ELSE cs
    IN  IsDecimal(ds) /\ FitsU32(NumeralOf(ds))
IdFailure == IdSuccess /\ (TheIds = <<>> \/ ~IdParses(TheIds[1]))

\* C12 as stated: each class of failure yields its own kind and no other, and
\* each kind is returned for its own class only; no failure is a success.
C12_KindIdentifiesClass ==
    ret.some =>
        /\ TransportFailed => ret.v = Err(NetworkError)
        /\ Undecodable => ret.v = Err(UnsupportedApiError)
        /\ (NonOk \/ NeitherAnswered) => ret.v = Err(BadRequestError)
        /\ RemoteError => (~ret.v.ok /\ ret.v.err.kind = "ApiCallError")
        /\ IdFailure => ret.v = Err(LocalError)
        /\ ~ret.v.ok =>
              CASE ret.v.err.kind = "NetworkError" -> TransportFailed
                [] ret.v.err.kind = "UnsupportedApiError" -> Undecodable
                [] ret.v.err.kind = "BadRequestError" -> NonOk \/ NeitherAnswered
                [] ret.v.err.kind = "ApiCallError" -> RemoteError
                [] ret.v.err.kind = "Error" -> IdFailure

\* C12, amended: the kind follows the first class that applies, in this
\* order: params that cannot be serialized give UnsupportedApiError before
\* anything is sent; a transport failure, a body that cannot be read included
\* and whatever the status, gives NetworkError; a status other than 200 gives
\* BadRequestError; a 200 body that does not decode gives UnsupportedApiError;
\* an envelope with a result gives Error when the id post-processing fails and
\* success otherwise; an envelope with an error and no result gives
\* ApiCallError; an envelope with neither gives BadRequestError.
C12_KindFollowsFirstClass ==
    ret.some =>
        IF ~response.some THEN ret.v = Err(UnsupportedApiError) /\ posts = 0
        ELSE IF TransportFailed THEN ret.v = Err(NetworkError)
        ELSE IF NonOk THEN ret.v = Err(BadRequestError)
        ELSE IF Undecodable THEN ret.v = Err(UnsupportedApiError)
        ELSE IF ~Absent(TheBody, "result")
             THEN IF IdFailure THEN ret.v = Err(LocalError) ELSE ret.v.ok
        ELSE IF ~Absent(TheBody, "error")
             THEN ~ret.v.ok /\ ret.v.err.kind = "ApiCallError"
        ELSE ret.v = Err(BadRequestError)

\* a status 500 whose body could not be read is a NetworkError; so is no
\* answer at all
C12_Witness ==
    /\ NonOk /\ response.v.status = 500 /\ TransportFailed
    /\ ret.v = Err(NetworkError)

\* a value of type Result<_, ZabbixApiError>: Ok, or Err of one of the five
\* variants
ErrorKinds == {"NetworkError", "UnsupportedApiError", "ApiCallError", "BadRequestError",
               "Error"}
IsResult(r) ==
    /\ "ok" \in DOMAIN r
    /\ IF r.ok THEN "v" \in DOMAIN r
       ELSE "err" \in DOMAIN r /\ r.err.kind \in ErrorKinds

\* C13: whatever the transport outcome, the status, the body and the presence
\* of result and error, the operation returns a Result (Ok, or Err of one of
\* the five kinds) and never stops without one.
C13_AlwaysAResult ==
    /\ pc = "done" => ret.some
    /\ ret.some => IsResult(ret.v)
    /\ pc = "posted" => \A n \in NetOutcomes(TheOp) : IsResult(Handle(TheOp, n))

\* create_host answered with a success envelope whose id list is empty
\* returned an error value
C13_Witness ==
    /\ IdSuccess /\ TheOp = "create_host" /\ TheIds = <<>>
    /\ IsResult(ret.v) /\ ~ret.v.ok

\* no call is in progress and nothing of an earlier call is held
NothingHeld ==
    /\ call = None /\ api_request = None /\ http_request = None
    /\ response = None /\ ret = None /\ posts = 0

\* C14: no step of any operation, successful or failing, changes the endpoint
\* URL or the HTTP client of the handle, nor the arguments (the session among
\* them) of the call in progress; between calls nothing of a call is held, and
\* a call starts from the envelope built of its own arguments alone.
C14_HandleAndSessionUnchanged ==
    /\ [][api_endpoint_url' = api_endpoint_url /\ client' = client]_vars
    /\ [][(call.some /\ call'.some) => call' = call]_vars
    /\ [](pc = "idle" => NothingHeld)
    /\ [](pc = "built" => (http_request = None /\ response = None /\ ret = None /\ posts = 0))
    /\ [](http_request.some => http_request.v.url = api_endpoint_url)

\* a failed authenticated call, about to return: the URL is the one the handle
\* was built with and the session the one the caller passed
C14_Witness ==
    /\ pc = "done" /\ TheOp = "create_host" /\ ~ret.v.ok
    /\ api_endpoint_url = "http://localhost:3080/api_jsonrpc.php"
    /\ http_request.v.url = api_endpoint_url
    /\ call.v.session = "0424bd59b807674191e7d77572075f33"
    /\ variant = "v7" /\ http_request.v.bearer = Some(call.v.session)

\* C15: with several callers on one handle, in every interleaving a call that
\* has its outcome was sent as its own request (its own method, session and
\* params on its own exchange) and returns what the answer to that exchange
\* determines, whatever the other callers sent and received.
C15_OwnResponse ==
    \A t \in Callers :
        /\ wire[t].some =>
              /\ threads[t].call.some
              /\ wire[t].v.request.body.obj["method"] = JStr(Method(threads[t].call.v))
              /\ wire[t].v.request.body =
                     SerializeRequest(get_api_request(variant, Method(threads[t].call.v),
                                                      Params(threads[t].call.v),
                                                      SessionArg(threads[t].call.v))).v
        /\ (threads[t].pc = "done" /\ wire[t].some) =>
              /\ threads[t].response = wire[t].v.answer
              /\ threads[t].ret =
                     Some(Handle(threads[t].call.v.op, wire[t].v.answer.v))

\* two callers created a host at the same time and each got the id the server
\* sent it
C15_Witness ==
    /\ threads[1].pc = "done" /\ threads[2].pc = "done"
    /\ threads[1].call.v.op = "create_host" /\ threads[2].call.v.op = "create_host"
    /\ threads[1].ret = Some(Ok(<<4, 2>>))
    /\ threads[2].ret = Some(Ok(<<7>>))

\* a create operation returned Ok(id)
Created == IdSuccess /\ TheOp \in CreateOps /\ ret.v.ok

\* C17: the id a create operation returns in Ok is a positive integer.
C17_CreatedIdPositive == Created => ret.v.v # <<0>>

\* C19: the id a create operation returns, rendered as a decimal string, is
\* the id string of the created entity: the string the server sent for it in
\* the id list of the create response, under which it lists the entity to
\* every later get.
C19_IdRendersAsListed == Created => to_string(ret.v.v) = Chars(TheIds[1])

\* C20: an operation that was invoked has a Result for its caller in the end,
\* the exchange being assumed to end; once the exchange has ended the Result
\* is there, and the only step left is to return it: no wait, no request.
C20_Terminates ==
    /\ (call.some /\ ~ret.some) ~> (pc = "done" /\ ret.some /\ IsResult(ret.v))
    /\ [](response.some => (pc = "done" /\ ret.some))
    /\ [][response.some => (pc' = "idle" /\ posts' = 0 /\ http_request' = None)]_vars

\* a call whose exchange ended with a failure of the transport has its Result
C20_Witness ==
    /\ pc = "done" /\ response.some /\ response.v.t = "send_failed"
    /\ TheOp = "raw_api_call" /\ ret.v = Err(NetworkError)

\* the class of an outcome: success, or the kind of the error
Class(r) == IF r.ok THEN "Ok" ELSE r.err.kind

\* the outcome n of an exchange of operation op as operation op2 would be sent
\* it: the id list of a result is held under op2's key
Rekey(n, op, op2) ==
    IF /\ n.t = "http" /\ n.body.some /\ n.body.v.t = "obj"
       /\ HasKey(n.body.v, "result") /\ n.body.v.obj["result"].t = "obj"
       /\ IdField(op) \in DOMAIN n.body.v.obj["result"].obj
    THEN [n EXCEPT !.body = Some(JObj([k \in DOMAIN n.body.v.obj |->
             IF k = "result"
             THEN JObj([f \in {IdField(op2)} |-> n.body.v.obj["result"].obj[IdField(op)]])
             ELSE n.body.v.obj[k]]))]
    ELSE n

IdValue(s) ==
    LET cs == Chars(s)
    IN  NumeralOf(IF cs[1] = "+" THEN Tail(cs) ELSE cs)

\* delete_hosts was answered with a success envelope
DeleteSuccess ==
    /\ Http200 /\ TheOp = "delete_hosts" /\ EnvelopeFits(TheOp, TheBody)
    /\ ~Absent(TheBody, "result")

\* C22: on a success envelope delete_hosts returns Ok with the whole hostids
\* list of the response, every element in order and unparsed, an empty list
\* and a list of non-numeric ids included; update_host given the same envelope
\* fails with Error when the list is empty or its first id does not parse and
\* returns the first id, parsed, otherwise.
C22_DeleteReturnsWholeList ==
    DeleteSuccess =>
        /\ ret.v = Ok(TheIds)
        /\ LET u == Handle("update_host", response.v)
           IN  IF TheIds = <<>> \/ ~IdParses(TheIds[1]) THEN u = Err(LocalError)
               ELSE u = Ok(IdValue(TheIds[1]))

\* delete_hosts answered with the ids ("12a", "7") returned them both, where
\* update_host fails
C22_Witness ==
    /\ DeleteSuccess /\ TheIds = <<"12a", "7">>
    /\ ret.v = Ok(<<"12a", "7">>)
    /\ Handle("update_host", response.v) = Err(LocalError)

\* an envelope with both a result and an error object
BothPresent ==
    /\ Http200 /\ EnvelopeFits(TheOp, TheBody)
    /\ ~Absent(TheBody, "result") /\ ~Absent(TheBody, "error")

\* the outcome n with the `error` key taken out of the envelope
WithoutError(n) ==
    [n EXCEPT !.body = Some(JObj([k \in DOMAIN n.body.v.obj \ {"error"} |->
                                     n.body.v.obj[k]]))]

\* C23: an envelope with both `result` and `error` is handled as the success
\* envelope it is without the error: a typed operation returns what it returns
\* for the result alone, the error dropped; raw_api_call returns Ok with the
\* envelope, both fields in it; ApiCallError is returned only when `result` is
\* absent.
C23_ResultWins ==
    /\ BothPresent =>
          /\ Class(ret.v) # "ApiCallError"
          /\ IF TheOp = "raw_api_call"
             THEN /\ ret.v.ok
                  /\ ret.v.v.result.some
                  /\ SameEntities(ret.v.v.result.v, TheBody.obj["result"])
                  /\ ret.v.v.error.some
                  /\ ret.v.v.error.v.code = TheBody.obj["error"].obj["code"].num
                  /\ ret.v.v.error.v.message = TheBody.obj["error"].obj["message"].str
                  /\ ret.v.v.error.v.data = TheBody.obj["error"].obj["data"].str
             ELSE /\ ret.v = Handle(TheOp, WithoutError(response.v))
                  /\ TheOp \in GetOps => (ret.v.ok /\ SameEntities(ret.v.v, TheBody.obj["result"]))
                  /\ TheOp \in UnauthOps => ret.v = Ok(TheBody.obj["result"].str)
                  /\ TheOp = "delete_hosts" => ret.v = Ok(TheIds)
    /\ (Http200 /\ Class(ret.v) = "ApiCallError") => Absent(TheBody, "result")

\* get_hosts answered with a host and an error object returned the host
C23_Witness ==
    /\ BothPresent /\ TheOp = "get_hosts"
    /\ Len(TheBody.obj["result"].arr) = 1
    /\ ret.v = Ok(<<[id |-> "10084", name |-> "Zabbix server"]>>)

\* the outcome n with the id and the version of the request in its envelope
AsRequested(n) ==
    [n EXCEPT !.body = Some(JObj([k \in DOMAIN n.body.v.obj |->
        CASE k = "id" -> JNum(REQUEST_ID)
          [] k = "jsonrpc" -> JStr(JSON_RPC_VERSION)
          [] OTHER -> n.body.v.obj[k]]))]

\* the envelope a raw call returned, its id and version put aside
Payload(r) == IF r.ok THEN Ok([result |-> r.v.result, error |-> r.v.error]) ELSE r

\* C24: every request is built, and sent, with version "2.0" and id 1 whatever
\* the operation; the id and the version of a response are not compared with
\* them: an envelope with any id of the signed 8-bit range and any version
\* string has the outcome of the same envelope with id 1 and version "2.0".
C24_IdAndVersionUnchecked ==
    /\ api_request.some =>
          (api_request.v.jsonrpc = "2.0" /\ api_request.v.id = 1)
    /\ http_request.some =>
          /\ http_request.v.body.obj["jsonrpc"] = JStr("2.0")
          /\ http_request.v.body.obj["id"] = JNum(1)
    /\ (Http200 /\ HeaderFits(TheBody)) =>
          LET h == Handle(TheOp, AsRequested(response.v))
          IN  IF TheOp = "raw_api_call"
              THEN /\ Payload(ret.v) = Payload(h)
                   /\ ret.v.ok => /\ ret.v.v.id = TheBody.obj["id"].num
                                   /\ ret.v.v.jsonrpc = TheBody.obj["jsonrpc"].str
              ELSE ret.v = h

\* create_host answered with id -128 and version "1.0" returned the id created
C24_Witness ==
    /\ Http200 /\ TheOp = "create_host" /\ HeaderFits(TheBody)
    /\ TheBody.obj["id"] = JNum(-128)
    /\ TheBody.obj["jsonrpc"] = JStr("1.0")
    /\ http_request.v.body.obj["id"] = JNum(1)
    /\ ret.v = Ok(<<4, 2>>)

\* the envelope carries an error object
CarriesError ==
    /\ Http200 /\ TheBody.t = "obj"
    /\ HasKey(TheBody, "error") /\ TheBody.obj["error"].t = "obj"

\* the error object lacks one of its three fields
ErrorLacksField == ~({"code", "message", "data"} \subseteq DOMAIN TheBody.obj["error"].obj)

\* jsonrpc or id is missing, or id is null or no integer of -128..127
HeaderBroken ==
    \/ ~HasKey(TheBody, "jsonrpc")
    \/ ~HasKey(TheBody, "id")
    \/ TheBody.obj["id"].t = "null"
    \/ (TheBody.obj["id"].t = "num" /\
           (TheBody.obj["id"].num < -128 \/ TheBody.obj["id"].num > 127))

\* C25: an HTTP-200 response carrying an error object is reported as
\* ApiCallError only if the whole envelope decodes; if the error object lacks
\* code, message or data, or the envelope lacks jsonrpc or id, or id is null or
\* outside -128..127, the operation returns UnsupportedApiError, which holds
\* nothing of the remote error.
C25_ErrorNeedsWholeEnvelope ==
    CarriesError =>
        /\ Class(ret.v) = "ApiCallError" => EnvelopeFits(TheOp, TheBody)
        /\ (ErrorLacksField \/ HeaderBroken) =>
               /\ ret.v = Err(UnsupportedApiError)
               /\ DOMAIN ret.v.err = {"kind"}

\* get_hosts answered with a complete error object and id 128, no result,
\* returned UnsupportedApiError
C25_Witness ==
    /\ CarriesError /\ TheOp = "get_hosts" /\ ~HasKey(TheBody, "result")
    /\ ErrorFits(TheBody.obj["error"])
    /\ HasKey(TheBody, "jsonrpc") /\ HasKey(TheBody, "id")
    /\ TheBody.obj["id"] = JNum(128)
    /\ ret.v = Err(UnsupportedApiError)

\* the envelope of the call cannot be serialized
Unserializable == api_request.some /\ ~SerializeRequest(api_request.v).some

\* C26: when the envelope, params included, cannot be serialized the operation
\* returns UnsupportedApiError and nothing is sent; a request is sent only with
\* the serialized envelope as its body, and an answer comes only to a request
\* that was sent: serialization precedes, and gates, the one exchange.
C26_SerializationGatesExchange ==
    /\ []((pc = "done" /\ Unserializable) =>
            /\ ret = Some(Err(UnsupportedApiError))
            /\ posts = 0 /\ http_request = None /\ response = None)
    /\ [][posts' > posts =>
            /\ ~Unserializable
            /\ posts' = 1
            /\ http_request'.some
            /\ http_request'.v.body = SerializeRequest(api_request.v).v]_vars
    /\ [][(response'.some /\ response' # response) =>
            (posts = 1 /\ http_request.some /\ ~Unserializable)]_vars

\* a raw call whose params cannot be serialized returned UnsupportedApiError
\* with nothing sent
C26_Witness ==
    /\ pc = "done" /\ Unserializable /\ TheOp = "raw_api_call"
    /\ call.v.params.kind = "badmap"
    /\ ret = Some(Err(UnsupportedApiError))
    /\ posts = 0 /\ http_request = None

\* the status line arrived and reading the body failed
BodyUnread == Exchanged /\ response.v.t = "http" /\ ~response.v.body.some

\* C27: the body is read before the status is looked at, and decoded only
\* once the status was found to be 200: a body that cannot be read gives
\* NetworkError whatever the status; BadRequestError for a status other than
\* 200 is returned only when the body was read, and then whatever the body
\* holds; a decoding failure is returned only for a status of 200.
C27_ReadThenStatusThenDecode ==
    /\ BodyUnread => ret.v = Err(NetworkError)
    /\ (NonOk /\ ret.v = Err(BadRequestError)) => response.v.body.some
    /\ (NonOk /\ response.v.body.some) => ret.v = Err(BadRequestError)
    /\ (Exchanged /\ Class(ret.v) = "UnsupportedApiError") => Http200

\* a status 201 whose body could not be read gave NetworkError
C27_Witness ==
    /\ BodyUnread /\ response.v.status = 201
    /\ TheOp = "create_item"
    /\ ret.v = Err(NetworkError)

\* a create-style operation answered with an id list whose first id is s
FirstIdIs(s) == IdSuccess /\ TheIds # <<>> /\ TheIds[1] = s

\* C28: the first id is parsed as a u32 without wrap-around: a first id
\* denoting an integer of 0..4294967295 is returned as that integer, 4294967295
\* included, and one denoting 4294967296 fails with the local error instead
\* of coming back as 0 or as any other integer.
C28_U32Bounded ==
    /\ FirstIdIs("0") => ret.v = Ok(<<0>>)
    /\ FirstIdIs("42") => ret.v = Ok(<<4, 2>>)
    /\ FirstIdIs("007") => ret.v = Ok(<<7>>)
    /\ FirstIdIs("+5") => ret.v = Ok(<<5>>)
    /\ FirstIdIs("4294967295") => ret.v = Ok(<<4, 2, 9, 4, 9, 6, 7, 2, 9, 5>>)
    /\ FirstIdIs("4294967296") => ret.v = Err(LocalError)
    /\ (IdSuccess /\ ret.v.ok) =>
          /\ Len(ret.v.v) <= 10
          /\ Len(ret.v.v) = 10 => NumeralLE(ret.v.v, <<4, 2, 9, 4, 9, 6, 7, 2, 9, 5>>)

\* create_user answered with 4294967296 first failed with the local error
C28_Witness ==
    /\ FirstIdIs("4294967296") /\ TheOp = "create_user"
    /\ ret.v = Err(LocalError)

\* the session string the request transmits: the bearer credential, or else
\* the string under the body's `auth`
SessionSent ==
    IF http_request.v.bearer.some THEN http_request.v.bearer
    ELSE IF HasKey(http_request.v.body, "auth") /\ http_request.v.body.obj["auth"].t = "str"
         THEN Some(http_request.v.body.obj["auth"].str)
    ELSE None

\* C29: get_api_info and get_auth_session transmit no session token: no bearer
\* credential under either variant, and under the legacy variant an `auth` of
\* null; every other operation transmits the session string of the caller,
\* unchanged, also when it is empty.
C29_SessionTransmitted ==
    http_request.some =>
        IF TheOp \in UnauthOps
        THEN /\ http_request.v.bearer = None
             /\ SessionSent = None
             /\ variant = "v6" => (HasKey(http_request.v.body, "auth") /\
                                     http_request.v.body.obj["auth"] = JNull)
        ELSE SessionSent = Some(call.v.session)

\* a raw call with an empty session, posted under v7 with an empty bearer
\* credential
C29_Witness ==
    /\ http_request.some /\ pc = "posted" /\ variant = "v7"
    /\ TheOp = "raw_api_call" /\ call.v.session = ""
    /\ http_request.v.bearer = Some("")

\* a raw call that has returned
RawReturned == pc = "done" /\ ret.some /\ TheOp = "raw_api_call"

====
